---- MODULE Spec2Model ----
(***************************************************************************)
(* A model of the Wazo call survey plugin (src/survey_plugin): the caller  *)
(* eligibility ledger, the response store, the survey instances and the    *)
(* decision operations of services.py, as they run on the SQLite tables of *)
(* database.py under a multi-threaded HTTP server.                         *)
(*                                                                         *)
(* Conventions.  A Python value that may be None is a sequence: <<>> is    *)
(* None and <<v>> is the value v.  Time is counted in hours; the clock     *)
(* starts at 0 and rows that were in the database file before the service  *)
(* started carry negative timestamps.  A formatted string is the sequence  *)
(* of its parts.                                                           *)
(***************************************************************************)
EXTENDS Integers, Sequences, FiniteSets, TLC

VARIABLES
    now,        \* datetime.utcnow(), in hours since the service started
    ledger,     \* table caller_eligibility, rows in rowid order
    responses,  \* table survey_responses, rows in rowid order
    instances,  \* table survey_instances, rows in rowid order
    worker,     \* per request thread: its place in process_survey_response
    result,     \* what the operation of the last step returned or raised
    recorded,   \* history: the process_survey_response calls that returned
                \* after writing the ledger
    ledger0,    \* history: the ledger as the service found it
    sampled,    \* history: an earlier call of should_sample_caller (with the
                \* number of ledger rows at the time), or None
    handler     \* the /survey/response request being handled: its place in
                \* the handler, its body, what it has computed and sent

vars == <<now, ledger, responses, instances, worker, result, recorded, ledger0, sampled,
          handler>>

stores == <<ledger, responses, instances>>

-----------------------------------------------------------------------------
(* Bounds of the model. *)

MaxClock == 1
MaxResponses == 3
MaxInstances == 1

(* Program constants. *)

DefaultCooldownHours == 24
MaxSurveys == 10
HashBuckets == 100

-----------------------------------------------------------------------------
(* Values. *)

None == <<>>
Some(v) == <<v>>

\* Python truthiness of an optional string: None and "" are falsy.
Truthy(s) == s # None /\ s[1] # ""

\* str(x) inside an f-string, for an optional string.
Str(s) == IF s = None THEN "None" ELSE s[1]

\* SQL "a = b": never true when either side is NULL.
SqlEq(a, b) == a # None /\ b # None /\ a = b

Workers == {"w1", "w2"}

CallerIds == {"1001", "1002"}
TenantIds == {"t1"}

\* What the HTTP layer can hand to the services.
CallerInputs == {Some(c) : c \in CallerIds} \cup {None}
SeqCallerInputs == {Some("1001"), None}
TenantInputs == {Some(t) : t \in TenantIds} \cup {None}
InstanceInputs == {Some(i) : i \in 1..MaxInstances} \cup {None}

ResponseStatus == {"pending", "completed", "abandoned", "failed"}
Language == {"en", "es", "fr", "de", "it", "pt"}
TriggerMode == {"post_call_ivr", "in_queue_intercept", "out_of_band_sms",
                "out_of_band_email"}

Ok(v) == [kind |-> "ok", value |-> v]
Raise(e) == [kind |-> "error", value |-> e]

-----------------------------------------------------------------------------
(* database.py *)

\* SELECT * FROM caller_eligibility WHERE caller_id = ? AND tenant_uuid = ?,
\* fetchone(): None, or the first matching row.
get_caller_eligibility(caller_id, tenant_uuid) ==
    LET hits == SelectSeq(ledger, LAMBDA r :
                    SqlEq(r.caller_id, caller_id) /\ SqlEq(r.tenant_uuid, tenant_uuid))
    IN  IF hits = <<>> THEN None ELSE Some(hits[1])

\* Variant: the key of the table is the tenant alone.
update_caller_eligibility_ByTenant(table, e) ==
    Append(SelectSeq(table, LAMBDA r : ~ SqlEq(r.tenant_uuid, e.tenant_uuid)), e)

\* INSERT OR REPLACE INTO caller_eligibility: the rows that conflict with the
\* new one on PRIMARY KEY (caller_id, tenant_uuid) are deleted, then the new
\* row is inserted.  SQLite lets NULL into this key and holds NULLs to be
\* distinct, so a row whose tenant_uuid is NULL conflicts with no row.
update_caller_eligibility(table, e) ==
    Append(SelectSeq(table, LAMBDA r :
               ~(SqlEq(r.caller_id, e.caller_id) /\ SqlEq(r.tenant_uuid, e.tenant_uuid))),
           e)

-----------------------------------------------------------------------------
(* services.py: SurveyService.is_caller_eligible *)

\* Variant: the cooldown is looked at before the blacklist.
is_caller_eligible_CooldownFirst(caller_id, tenant_uuid, instance_id) ==
    LET eligibility == get_caller_eligibility(caller_id, tenant_uuid)
    IN  IF eligibility = None
        THEN Ok([eligible |-> TRUE, reason |-> <<"New caller">>])
        ELSE LET e == eligibility[1]
             IN  IF e.last_surveyed # None
                    /\ e.last_surveyed[1] > now - DefaultCooldownHours
                 THEN Ok([eligible |-> FALSE, reason |-> <<"Still in cooldown period">>])
                 ELSE IF e.is_blacklisted
                 THEN Ok([eligible |-> FALSE,
                          reason |-> <<"Blacklisted: ", Str(e.blacklist_reason)>>])
                 ELSE IF e.survey_count >= MaxSurveys
                 THEN Ok([eligible |-> FALSE, reason |-> <<"Maximum survey count reached">>])
                 ELSE Ok([eligible |-> TRUE, reason |-> <<"Eligible">>])

\* Variant: the cap is reached one survey late.
is_caller_eligible_CapExclusive(caller_id, tenant_uuid, instance_id) ==
    LET eligibility == get_caller_eligibility(caller_id, tenant_uuid)
    IN  IF eligibility = None
        THEN Ok([eligible |-> TRUE, reason |-> <<"New caller">>])
        ELSE LET e == eligibility[1]
             IN  IF e.is_blacklisted
                 THEN Ok([eligible |-> FALSE,
                          reason |-> <<"Blacklisted: ", Str(e.blacklist_reason)>>])
                 ELSE IF e.last_surveyed # None
                         /\ e.last_surveyed[1] > now - DefaultCooldownHours
                 THEN Ok([eligible |-> FALSE, reason |-> <<"Still in cooldown period">>])
                 ELSE IF e.survey_count > MaxSurveys
                 THEN Ok([eligible |-> FALSE, reason |-> <<"Maximum survey count reached">>])
                 ELSE Ok([eligible |-> TRUE, reason |-> <<"Eligible">>])

is_caller_eligible(caller_id, tenant_uuid, instance_id) ==
    LET eligibility == get_caller_eligibility(caller_id, tenant_uuid)
    IN  IF eligibility = None
        THEN Ok([eligible |-> TRUE, reason |-> <<"New caller">>])
        ELSE LET e == eligibility[1]
             IN  IF e.is_blacklisted
                 THEN Ok([eligible |-> FALSE,
                          reason |-> <<"Blacklisted: ", Str(e.blacklist_reason)>>])
                 ELSE IF e.last_surveyed # None
                         /\ e.last_surveyed[1] > now - DefaultCooldownHours
                 THEN Ok([eligible |-> FALSE, reason |-> <<"Still in cooldown period">>])
                 ELSE IF e.survey_count >= MaxSurveys
                 THEN Ok([eligible |-> FALSE, reason |-> <<"Maximum survey count reached">>])
                 ELSE Ok([eligible |-> TRUE, reason |-> <<"Eligible">>])

\* Variant: the check stamps the row it has read.
IsCallerEligible_Touching(caller_id, tenant_uuid, instance_id) ==
    /\ result' = [op |-> "is_caller_eligible",
                  args |-> <<caller_id, tenant_uuid, instance_id>>,
                  out |-> is_caller_eligible(caller_id, tenant_uuid, instance_id)]
    /\ ledger' = LET e == get_caller_eligibility(caller_id, tenant_uuid)
                 IN  IF e = None THEN ledger
                     ELSE update_caller_eligibility(ledger, [e[1] EXCEPT !.updated_at = now])
    /\ UNCHANGED <<now, responses, instances, worker, recorded, ledger0, sampled, handler>>

IsCallerEligible(caller_id, tenant_uuid, instance_id) ==
    /\ result' = [op |-> "is_caller_eligible",
                  args |-> <<caller_id, tenant_uuid, instance_id>>,
                  out |-> is_caller_eligible(caller_id, tenant_uuid, instance_id)]
    /\ UNCHANGED <<now, ledger, responses, instances, worker, recorded, ledger0, sampled, handler>>

-----------------------------------------------------------------------------
(* The clock. *)

Tick ==
    /\ now < MaxClock
    /\ now' = now + 1
    /\ result' = [op |-> "tick", args |-> <<>>, out |-> Ok(None)]
    /\ UNCHANGED <<ledger, responses, instances, worker, recorded, ledger0, sampled, handler>>

-----------------------------------------------------------------------------

(* services.py: SurveyService.process_survey_response, one request thread w.  *)
(* Each database call opens its own connection and commits on its own, so    *)
(* the INSERT of the response, the SELECT of the ledger row and the INSERT   *)
(* OR REPLACE of the ledger row are three separate transactions: a step of   *)
(* another thread can fall between any two of them.                          *)

\* The request bodies. A key of the body that is absent is None; a key that is
\* present holds Some(value), the value itself None for a JSON null.
Absent == None
ResponseData ==
    [instance_id : {Some(Some(1))}, caller_id : {Some("1001")},
     tenant_uuid : TenantInputs, language : {Absent}, status : {Absent}]
    \cup
    [instance_id : {Some(Some(1))}, caller_id : {None},
     tenant_uuid : {Some("t1")}, language : {Absent}, status : {Absent}]
    \cup
    [instance_id : {Some(Some(1))}, caller_id : {Some("1001")},
     tenant_uuid : {Some("t1")}, language : {Some("es")}, status : {Some("pending")}]
    \cup
    [instance_id : {Some(None), Absent}, caller_id : {Some("1001")},
     tenant_uuid : {Some("t1")}, language : {Absent}, status : {Absent}]
    \cup
    [instance_id : {Some(Some(1))}, caller_id : {Some("1001")},
     tenant_uuid : {Some("t1")}, language : {Some("xx")}, status : {Absent}]
    \cup
    [instance_id : {Some(Some(1))}, caller_id : {Some("1001")},
     tenant_uuid : {Some("t1")}, language : {Absent}, status : {Some("done")}]

\* The bodies of the requests that race: completed responses of two callers.
RaceData ==
    [instance_id : {Some(Some(1))}, caller_id : {Some("1001")},
     tenant_uuid : TenantInputs, language : {Absent}, status : {Absent}]
    \cup
    [instance_id : {Some(Some(1))}, caller_id : {Some("1002")},
     tenant_uuid : {Some("t1")}, language : {Absent}, status : {Absent}]

\* dict.get(key, default)
Get(field, default) == IF field = Absent THEN default ELSE field[1]

\* Variant: the language is stored as it was sent.
NewSurveyResponse_AnyLanguage(data) ==
    IF data.instance_id = Absent THEN Raise("KeyError")
    ELSE IF Get(data.status, "completed") \notin ResponseStatus THEN Raise("ValueError")
    ELSE Ok([response_id |-> Len(responses) + 1,
             instance_id |-> data.instance_id[1],
             caller_id |-> data.caller_id,
             language |-> Get(data.language, "en"),
             status |-> Get(data.status, "completed"),
             score |-> IF "score" \in DOMAIN data THEN data.score ELSE Absent,
             created_at |-> now,
             completed_at |-> IF Get(data.status, "completed") = "completed"
                              THEN Some(now) ELSE None])

\* The SurveyResponse(...) construction of lines 85-100 and the assignment of
\* completed_at: the exception it raises, or the object.
NewSurveyResponse(data) ==
    IF data.instance_id = Absent THEN Raise("KeyError")
    ELSE IF Get(data.language, "en") \notin Language THEN Raise("ValueError")
    ELSE IF Get(data.status, "completed") \notin ResponseStatus THEN Raise("ValueError")
    ELSE Ok([response_id |-> Len(responses) + 1,
             instance_id |-> data.instance_id[1],
             caller_id |-> data.caller_id,
             language |-> Get(data.language, "en"),
             status |-> Get(data.status, "completed"),
             score |-> IF "score" \in DOMAIN data THEN data.score ELSE Absent,
             created_at |-> now,
             completed_at |-> IF Get(data.status, "completed") = "completed"
                              THEN Some(now) ELSE None])

\* INSERT INTO survey_responses: instance_id is NOT NULL.
create_survey_response(response) ==
    IF response.instance_id = None THEN Raise("IntegrityError") ELSE Ok(response.response_id)

Idle == [pc |-> "idle"]

ProcessResult(data, out) ==
    [op |-> "process_survey_response", args |-> <<data>>, out |-> out]

\* Lines 85-105: build the response and store it; a response without a caller
\* identifier is returned at once.
ProcessCreateStep(w, data) ==
    /\ worker[w].pc = "idle"
    /\ Len(responses) < MaxResponses
    /\ LET built == NewSurveyResponse(data)
           stored == IF built.kind = "ok" THEN create_survey_response(built.value)
                     ELSE built
       IN  IF stored.kind = "error"
           THEN /\ result' = ProcessResult(data, stored)
                /\ UNCHANGED <<responses, worker>>
           ELSE /\ responses' = Append(responses, built.value)
                /\ IF Truthy(built.value.caller_id)
                   THEN /\ worker' = [worker EXCEPT ![w] =
                                [pc |-> "read", data |-> data,
                                 response_id |-> built.value.response_id]]
                        /\ result' = [op |-> "step", args |-> <<>>, out |-> Ok(None)]
                   ELSE /\ result' = ProcessResult(data, stored)
                        /\ UNCHANGED worker
    /\ UNCHANGED <<now, ledger, instances, recorded, ledger0, sampled>>

\* The call made by a request thread that is not the /survey/response handler.
ProcessCreate(w, data) == ProcessCreateStep(w, data) /\ UNCHANGED handler

\* A tenant value that sqlite3 cannot bind as a parameter (a dict, a list):
\* the SELECT of the ledger row raises ProgrammingError.
Unbindable == "[dict]"

\* Lines 109-120: read the ledger row and build the row to write. The
\* response of line 105 is committed by then.
ProcessRead(w) ==
    /\ worker[w].pc = "read"
    /\ LET data == worker[w].data
           tenant_uuid == Get(Some(data.tenant_uuid), Some(""))
           eligibility == get_caller_eligibility(data.caller_id, tenant_uuid)
           updated == IF eligibility = None
                      THEN [caller_id |-> data.caller_id,
                            tenant_uuid |-> tenant_uuid,
                            last_surveyed |-> Some(now),
                            survey_count |-> 1,
                            is_blacklisted |-> FALSE,
                            blacklist_reason |-> None,
                            updated_at |-> now]
                      ELSE [eligibility[1] EXCEPT
                                !.survey_count = @ + 1,
                                !.last_surveyed = Some(now),
                                !.updated_at = now]
       IN  IF data.tenant_uuid = Some(Unbindable)
           THEN /\ worker' = [worker EXCEPT ![w] = Idle]
                /\ result' = ProcessResult(data, Raise("ProgrammingError"))
           ELSE /\ worker' = [worker EXCEPT ![w] = [@ EXCEPT !.pc = "write"] @@
                                                 [eligibility |-> updated]]
                /\ result' = [op |-> "step", args |-> <<>>, out |-> Ok(None)]
    /\ UNCHANGED <<now, ledger, responses, instances, recorded, ledger0, sampled, handler>>

\* Variant: the write carries the new survey_count and leaves last_surveyed
\* as the table has it.
ProcessWriteStep_CountOnly(w) ==
    /\ worker[w].pc = "write"
    /\ ledger' = LET e == worker[w].eligibility
                     old == get_caller_eligibility(e.caller_id, e.tenant_uuid)
                 IN  update_caller_eligibility(ledger,
                         [e EXCEPT !.last_surveyed =
                              IF old = None THEN None ELSE old[1].last_surveyed])
    /\ recorded' = recorded \cup
                      {[response_id |-> worker[w].response_id,
                        caller_id |-> worker[w].data.caller_id,
                        tenant_uuid |-> worker[w].data.tenant_uuid,
                        status |-> Get(worker[w].data.status, "completed"),
                        survey_count |-> worker[w].eligibility.survey_count,
                        at |-> now]}
    /\ result' = ProcessResult(worker[w].data, Ok(worker[w].response_id))
    /\ worker' = [worker EXCEPT ![w] = Idle]
    /\ UNCHANGED <<now, responses, instances, ledger0, sampled>>

\* Lines 122-124: write the row and return the response identifier.
ProcessWriteStep(w) ==
    /\ worker[w].pc = "write"
    /\ ledger' = update_caller_eligibility(ledger, worker[w].eligibility)
    /\ recorded' = recorded \cup
                      {[response_id |-> worker[w].response_id,
                        caller_id |-> worker[w].data.caller_id,
                        tenant_uuid |-> worker[w].data.tenant_uuid,
                        status |-> Get(worker[w].data.status, "completed"),
                        survey_count |-> worker[w].eligibility.survey_count,
                        at |-> now]}
    /\ result' = ProcessResult(worker[w].data, Ok(worker[w].response_id))
    /\ worker' = [worker EXCEPT ![w] = Idle]
    /\ UNCHANGED <<now, responses, instances, ledger0, sampled>>

ProcessWrite(w) == ProcessWriteStep(w) /\ UNCHANGED handler

\* A database call of lines 109-122 that raises (sqlite3.OperationalError,
\* "database is locked" or a disk error): the exception leaves the method, the
\* statement that raised has written nothing.
ProcessFail(w) ==
    /\ worker[w].pc \in {"read", "write"}
    /\ result' = ProcessResult(worker[w].data, Raise("OperationalError"))
    /\ worker' = [worker EXCEPT ![w] = Idle]
    /\ UNCHANGED <<now, ledger, responses, instances, recorded, ledger0, sampled, handler>>

-----------------------------------------------------------------------------
(* services.py: SurveyService.create_survey_instance, and the INSERT of      *)
(* database.py: one transaction.                                             *)

InstanceData ==
    [template_id : {Some(Some("tpl")), Some(None), Absent}, tenant_uuid : {Some("t1")},
     trigger_mode : {Absent}, cooldown_hours : {Some(1)}]
    \cup
    [template_id : {Some(Some("tpl"))}, tenant_uuid : {Some("t1")},
     trigger_mode : {Some("ivr")}, cooldown_hours : {Absent}]

\* The SurveyInstance(...) construction of lines 38-49.
NewSurveyInstance(data) ==
    IF data.template_id = Absent THEN Raise("KeyError")
    ELSE IF Get(data.trigger_mode, "post_call_ivr") \notin TriggerMode
    THEN Raise("ValueError")
    ELSE Ok([instance_id |-> Len(instances) + 1,
             template_id |-> data.template_id[1],
             tenant_uuid |-> data.tenant_uuid,
             trigger_mode |-> Get(data.trigger_mode, "post_call_ivr"),
             cooldown_hours |-> Get(data.cooldown_hours, DefaultCooldownHours),
             is_active |-> TRUE])

\* INSERT INTO survey_instances: template_id is NOT NULL.
create_survey_instance(instance) ==
    IF instance.template_id = None THEN Raise("IntegrityError")
    ELSE Ok(instance.instance_id)

CreateSurveyInstance(data) ==
    /\ Len(instances) < MaxInstances
    /\ LET built == NewSurveyInstance(data)
           stored == IF built.kind = "ok" THEN create_survey_instance(built.value)
                     ELSE built
       IN  /\ instances' = IF stored.kind = "ok" THEN Append(instances, built.value)
                           ELSE instances
           /\ result' = [op |-> "create_survey_instance", args |-> <<data>>,
                         out |-> stored]
    /\ UNCHANGED <<now, ledger, responses, worker, recorded, ledger0, sampled, handler>>

-----------------------------------------------------------------------------
(* api.py: POST /survey/eligibility/check.  The route carries no             *)
(* jwt_required, so _get_tenant_uuid falls back to the X-Tenant-UUID header, *)
(* which may be absent (None).                                               *)

check_caller_eligibility(caller_id, tenant_uuid, instance_id) ==
    IF ~Truthy(caller_id) \/ instance_id = None
    THEN [code |-> 400, ok |-> FALSE, body |-> <<"Missing required fields">>]
    ELSE LET r == is_caller_eligible(caller_id, tenant_uuid, instance_id)
         IN  [code |-> 200, ok |-> TRUE, body |-> r.value]

CheckCallerEligibility(caller_id, tenant_uuid, instance_id) ==
    /\ result' = [op |-> "check_caller_eligibility",
                  args |-> <<caller_id, tenant_uuid, instance_id>>,
                  out |-> check_caller_eligibility(caller_id, tenant_uuid, instance_id)]
    /\ UNCHANGED <<now, ledger, responses, instances, worker, recorded, ledger0, sampled, handler>>

-----------------------------------------------------------------------------
(* services.py: SurveyService.should_sample_caller *)

\* int(hashlib.md5(s.encode()).hexdigest(), 16), by its last six decimal
\* digits, for the caller identifiers of the model.
Md5(s) ==
    CASE s = "" -> 178366
      [] s = "1001" -> 822106
      [] s = "1002" -> 950880

SampleCallers == {Some("1001"), Some("1002"), Some(""), None}
SamplePercentages == {0 - 1, 0, 6, 7, 100, 101}
SampleInputs ==
    ({Some("1001")} \X SamplePercentages)
    \cup ({Some("1002"), Some("")} \X {0, 100}) \cup ({None} \X {100})

\* Variant: the hash is compared without the reduction modulo 100.
should_sample_caller_NoModulo(caller_id, sampling_percentage) ==
    IF caller_id = None THEN Raise("AttributeError")
    ELSE Ok(Md5(caller_id[1]) < sampling_percentage)

\* Variant: the bucket moves with the number of stored responses.
should_sample_caller_Drifting(caller_id, sampling_percentage) ==
    IF caller_id = None THEN Raise("AttributeError")
    ELSE Ok(((Md5(caller_id[1]) + Len(responses)) % HashBuckets) < sampling_percentage)

should_sample_caller(caller_id, sampling_percentage) ==
    IF caller_id = None THEN Raise("AttributeError")
    ELSE Ok((Md5(caller_id[1]) % HashBuckets) < sampling_percentage)

\* One call; keep says whether the history remembers it.
ShouldSampleCaller(caller_id, sampling_percentage, keep) ==
    /\ result' = [op |-> "should_sample_caller",
                  args |-> <<caller_id, sampling_percentage>>,
                  out |-> should_sample_caller(caller_id, sampling_percentage)]
    /\ sampled' = IF keep THEN Some([args |-> result'.args, out |-> result'.out,
                                      rows |-> Len(ledger)])
                  ELSE sampled
    /\ UNCHANGED <<now, ledger, responses, instances, worker, recorded, ledger0, handler>>

(* api.py: POST /survey/eligibility/sample.  The percentage of the body is a *)
(* JSON number, or a text that float() rejects (type "string"; what the     *)
(* text says does not matter).                                               *)

SampleBodies ==
    [caller_id : {Some("1001"), Some(""), None},
     sampling_percentage : {Absent, Some([type |-> "number", v |-> 6]),
                            Some([type |-> "string", v |-> 0])}]

check_sampling_eligibility(data) ==
    LET p == Get(data.sampling_percentage, [type |-> "number", v |-> 100])
    IN  IF p.type # "number"
        THEN [code |-> 400, ok |-> FALSE, body |-> <<"ValueError">>]
        ELSE IF ~Truthy(data.caller_id)
        THEN [code |-> 400, ok |-> FALSE, body |-> <<"Missing caller_id">>]
        ELSE LET r == should_sample_caller(data.caller_id, p.v)
             IN  IF r.kind = "error"
                 THEN [code |-> 400, ok |-> FALSE, body |-> <<r.value>>]
                 ELSE [code |-> 200, ok |-> TRUE, body |-> r.value]

CheckSamplingEligibility(data) ==
    /\ result' = [op |-> "check_sampling_eligibility", args |-> <<data>>,
                  out |-> check_sampling_eligibility(data)]
    /\ UNCHANGED <<now, ledger, responses, instances, worker, recorded, ledger0, sampled, handler>>

-----------------------------------------------------------------------------
(* services.py: AlertService.check_alert_conditions.  A text is the sequence *)
(* of its characters; an answer value carries its Python type.               *)

Upper == <<"A", "B", "C", "D", "E", "F", "G", "H", "I", "J", "K", "L", "M",
           "N", "O", "P", "Q", "R", "S", "T", "U", "V", "W", "X", "Y", "Z">>
Lower == <<"a", "b", "c", "d", "e", "f", "g", "h", "i", "j", "k", "l", "m",
           "n", "o", "p", "q", "r", "s", "t", "u", "v", "w", "x", "y", "z">>

\* str.lower()
LowerChar(ch) ==
    IF \E i \in 1..Len(Upper) : Upper[i] = ch
    THEN Lower[CHOOSE i \in 1..Len(Upper) : Upper[i] = ch]
    ELSE ch
\* Variant: the comment is compared as it was typed.
LowerText_AsTyped(text) == text

LowerText(text) == [i \in 1..Len(text) |-> LowerChar(text[i])]

\* keyword in text
Contains(text, keyword) ==
    \E i \in 0..(Len(text) - Len(keyword)) :
        SubSeq(text, i + 1, i + Len(keyword)) = keyword

complaint_keywords ==
    << <<"t", "e", "r", "r", "i", "b", "l", "e">>,
       <<"a", "w", "f", "u", "l">>,
       <<"h", "o", "r", "r", "i", "b", "l", "e">>,
       <<"w", "o", "r", "s", "t">>,
       <<"h", "a", "t", "e">>,
       <<"a", "n", "g", "r", "y">>,
       <<"f", "r", "u", "s", "t", "r", "a", "t", "e", "d">> >>

\* isinstance(score, (int, float)): bool is a subclass of int.
IsIntOrFloat(x) == x.type \in {"int", "float", "bool"}

Alert(type, message, priority, response) ==
    [type |-> type, message |-> message, priority |-> priority,
     response_id |-> response.response_id, caller_id |-> response.caller_id,
     agent_id |-> response.agent_id]

\* A comment that is no text: the JSON number 5, which has no lower().
NotText == <<"[int 5]">>

\* Variant: the CSAT alert uses the NPS threshold.
check_alert_conditions_CsatAtSix(response) ==
    LET score == response.score
        nps == IF score # Absent /\ IsIntOrFloat(score[1]) /\ score[1].v <= 6
               THEN <<Alert("nps_detractor",
                            <<"Low NPS score detected: ", score[1]>>, "high", response)>>
               ELSE <<>>
        csat == IF score # Absent /\ IsIntOrFloat(score[1]) /\ score[1].v <= 6
                THEN <<Alert("csat_detractor",
                             <<"Low CSAT score detected: ", score[1]>>, "high", response)>>
                ELSE <<>>
        complaint ==
            IF response.text_comments # None /\ response.text_comments[1] # <<>>
               /\ \E k \in 1..Len(complaint_keywords) :
                      Contains(LowerText(response.text_comments[1]), complaint_keywords[k])
            THEN <<Alert("complaint_detected",
                         <<"Complaint keywords detected in comments">>, "medium", response)>>
            ELSE <<>>
    IN  IF response.text_comments = Some(NotText) THEN Raise("AttributeError")
        ELSE Ok(nps \o csat \o complaint)

check_alert_conditions(response) ==
    LET score == response.score
        nps == IF score # Absent /\ IsIntOrFloat(score[1]) /\ score[1].v <= 6
               THEN <<Alert("nps_detractor",
                            <<"Low NPS score detected: ", score[1]>>, "high", response)>>
               ELSE <<>>
        csat == IF score # Absent /\ IsIntOrFloat(score[1]) /\ score[1].v <= 2
                THEN <<Alert("csat_detractor",
                             <<"Low CSAT score detected: ", score[1]>>, "high", response)>>
                ELSE <<>>
        complaint ==
            IF response.text_comments # None /\ response.text_comments[1] # <<>>
               /\ \E k \in 1..Len(complaint_keywords) :
                      Contains(LowerText(response.text_comments[1]), complaint_keywords[k])
            THEN <<Alert("complaint_detected",
                         <<"Complaint keywords detected in comments">>, "medium", response)>>
            ELSE <<>>
    IN  IF response.text_comments = Some(NotText) THEN Raise("AttributeError")
        ELSE Ok(nps \o csat \o complaint)

\* The responses handed to the alert check: the 'score' answer (absent, or a
\* typed value; True counts as 1) and the comment.
AlertScores ==
    {Absent, Some([type |-> "int", v |-> 1]), Some([type |-> "int", v |-> 5]),
     Some([type |-> "int", v |-> 9]), Some([type |-> "bool", v |-> 1]),
     Some([type |-> "str", v |-> 5])}
AlertComments ==
    {None, Some(<<>>), Some(<<"I", " ", "H", "A", "T", "E", " ", "i", "t">>),
     Some(<<"f", "i", "n", "e">>)}
AlertResponses ==
    [response_id : {1}, caller_id : {Some("1001")}, agent_id : {None},
     score : AlertScores, text_comments : {None}]
    \cup
    [response_id : {1}, caller_id : {Some("1001")}, agent_id : {None},
     score : {Absent, Some([type |-> "int", v |-> 1])}, text_comments : AlertComments]

\* The answers and comments of the alert rules' cases: scores on both sides of
\* the thresholds 2 and 6 as int and as float (a float is written by its
\* integral value), True and False, a text, a JSON null; comments with no
\* keyword, one, two, in upper and mixed case, and with a keyword inside a word.
AlertCaseScores ==
    {Absent} \cup {Some([type |-> "int", v |-> n]) : n \in {0 - 1, 2, 3, 6, 7}}
    \cup {Some([type |-> "float", v |-> n]) : n \in {2, 6, 7}}
    \cup {Some([type |-> "bool", v |-> 1]), Some([type |-> "bool", v |-> 0]),
          Some([type |-> "str", v |-> 5]), Some([type |-> "NoneType", v |-> 0])}
AlertCaseComments ==
    {None, Some(<<>>), Some(<<"f", "i", "n", "e">>),
     Some(<<"I", " ", "H", "A", "T", "E", " ", "i", "t">>),
     Some(<<"A", "n", "g", "r", "y">>),
     Some(<<"a", "w", "f", "u", "l", " ", "w", "o", "r", "s", "t">>),
     Some(<<"w", "h", "a", "t", "e", "v", "e", "r">>),
     Some(<<"h", "a", "t">>)}
AlertCases ==
    [response_id : {1}, caller_id : {Some("1001")}, agent_id : {None},
     score : AlertCaseScores, text_comments : AlertCaseComments]

CheckAlertConditions(response) ==
    /\ result' = [op |-> "check_alert_conditions", args |-> <<response>>,
                  out |-> check_alert_conditions(response)]
    /\ UNCHANGED <<now, ledger, responses, instances, worker, recorded, ledger0, sampled, handler>>

-----------------------------------------------------------------------------
(* services.py: WebhookService.  A payload is the sequence of its (key,      *)
(* value) pairs in insertion order; json.dumps(sort_keys=True) is the same   *)
(* pairs in key order.  HMAC-SHA256 is taken to be collision free: a digest  *)
(* is the pair of the key and the message it was computed from.              *)

KeyRank(k) == CASE k = "a" -> 1 [] k = "b" -> 2 [] k = "c" -> 3

RECURSIVE SortByKey(_)
SortByKey(pairs) ==
    IF pairs = <<>> THEN <<>>
    ELSE LET m == CHOOSE i \in 1..Len(pairs) :
                      \A j \in 1..Len(pairs) : KeyRank(pairs[i][1]) <= KeyRank(pairs[j][1])
         IN  <<pairs[m]>> \o
             SortByKey(SubSeq(pairs, 1, m - 1) \o SubSeq(pairs, m + 1, Len(pairs)))

\* Variant: the payload is serialized in insertion order.
json_dumps_Unsorted(payload) == payload

json_dumps(payload) == SortByKey(payload)

hmac_sha256(secret, message) == [key |-> secret, message |-> message]

\* The signature prefix with the top bit of its last character flipped: '='
\* (0x3D) becomes the character U+00BD, which is not ASCII.
NonAsciiPrefix == "sha256[U+00BD]"

\* hmac.compare_digest(a, b) on two str: the comparison, or TypeError when a
\* string holds a non-ASCII character.
compare_digest(a, b) ==
    IF a[1] = NonAsciiPrefix \/ b[1] = NonAsciiPrefix THEN Raise("TypeError")
    ELSE Ok(a = b)

sign_webhook_payload(payload, secret) ==
    Ok(<<"sha256=", hmac_sha256(secret, json_dumps(payload))>>)

\* The payload handed to verify: a JSON text (its parse, or None when it does
\* not parse) or an object that is no text at all.
verify_webhook_signature(payload, signature, secret) ==
    IF payload.type # "str" THEN Raise("TypeError")
    ELSE IF payload.parsed = None THEN Raise("JSONDecodeError")
    ELSE IF signature = None THEN Raise("TypeError")
    ELSE compare_digest(signature[1],
                        sign_webhook_payload(payload.parsed[1], secret).value)

Payloads == { << <<"a", 1>>, <<"b", 2>> >>, << <<"b", 2>>, <<"a", 1>> >>, << <<"a", 2>> >> }
Secrets == {"k1", "k2"}
VerifyPayloads ==
    {[type |-> "str", parsed |-> Some(<< <<"b", 2>>, <<"a", 1>> >>)],
     [type |-> "str", parsed |-> None],
     [type |-> "dict", parsed |-> Some(<< <<"a", 1>>, <<"b", 2>> >>)]}
Signatures ==
    {None,
     Some(<<"sha256=", hmac_sha256("k1", << <<"a", 1>>, <<"b", 2>> >>)>>),
     Some(<<"sha1=", hmac_sha256("k1", << <<"a", 1>>, <<"b", 2>> >>)>>)}

\* The texts and signatures of the round trip: the payloads as JSON texts in
\* both key orders, every signature the service produces for them, and a valid
\* signature with one bit flipped in its prefix ('=' to '<', '=' to U+00BD) or
\* with another digest.
WebhookTexts ==
    {[type |-> "str", parsed |-> Some(payload)] : payload \in Payloads}
    \cup {[type |-> "str", parsed |-> None]}
WebhookSignatures ==
    {Some(sign_webhook_payload(payload, secret).value) :
         payload \in Payloads, secret \in Secrets}
    \cup {Some(<<prefix, hmac_sha256("k1", << <<"a", 1>>, <<"b", 2>> >>)>>) :
              prefix \in {"sha256<", NonAsciiPrefix}}

SignWebhookPayload(payload, secret) ==
    /\ result' = [op |-> "sign_webhook_payload", args |-> <<payload, secret>>,
                  out |-> sign_webhook_payload(payload, secret)]
    /\ UNCHANGED <<now, ledger, responses, instances, worker, recorded, ledger0, sampled, handler>>

VerifyWebhookSignature(payload, signature, secret) ==
    /\ result' = [op |-> "verify_webhook_signature",
                  args |-> <<payload, signature, secret>>,
                  out |-> verify_webhook_signature(payload, signature, secret)]
    /\ UNCHANGED <<now, ledger, responses, instances, worker, recorded, ledger0, sampled, handler>>

-----------------------------------------------------------------------------

(* api.py: POST /survey/response.  The handler runs process_survey_response  *)
(* on the request thread w1, builds a second SurveyResponse from the body,   *)
(* checks the alert conditions on it and sends each alert to the log; any    *)
(* exception is answered with 400.                                           *)

HandlerIdle ==
    [pc |-> "idle", body |-> None, outcome |-> None, alerts |-> <<>>, sent |-> <<>>]

\* The bodies of the submissions: with and without a caller, a score that
\* triggers two alerts, one or none, a comment with a keyword, none, or one
\* that is no text; and a body without instance_id.
HandlerBodies ==
    [instance_id : {Some(Some(1))}, caller_id : {Some("1001"), None},
     tenant_uuid : {Some("t1")}, language : {Absent}, status : {Absent},
     score : {Absent, Some([type |-> "int", v |-> 1]), Some([type |-> "int", v |-> 5])},
     text_comments : {None, Some(<<"I", " ", "H", "A", "T", "E", " ", "i", "t">>),
                      Some(NotText)}]
    \cup
    [instance_id : {Absent}, caller_id : {Some("1001")},
     tenant_uuid : {Some("t1")}, language : {Absent}, status : {Absent},
     score : {Some([type |-> "int", v |-> 1])}, text_comments : {None}]

\* str(uuid.uuid4()) of a SurveyResponse that is built without a response_id:
\* an identifier that no stored response has.
uuid4 == MaxResponses + Len(responses) + 1

\* The SurveyResponse the handler builds for the alert check (lines 435-441).
HandlerResponse(body) ==
    [response_id |-> uuid4, caller_id |-> body.caller_id, agent_id |-> None,
     score |-> body.score, text_comments |-> body.text_comments]

HttpResult(body, code, answer) ==
    [op |-> "survey_response", args |-> <<body>>,
     out |-> [code |-> code, ok |-> (code = 200), body |-> answer]]

\* Lines 431-432: the call of process_survey_response, up to its first
\* database call.
SurveyResponseCall(body) ==
    /\ handler.pc = "idle"
    /\ ProcessCreateStep("w1", body)
    /\ handler' = [pc |-> IF worker'["w1"].pc = "idle" THEN "returned" ELSE "process",
                   body |-> Some(body),
                   outcome |-> IF worker'["w1"].pc = "idle" THEN Some(result'.out) ELSE None,
                   alerts |-> <<>>, sent |-> <<>>]

\* process_survey_response writes the ledger and returns to the handler.
SurveyResponseReturn ==
    /\ handler.pc = "process"
    /\ ProcessWriteStep("w1")
    /\ handler' = [handler EXCEPT !.pc = "returned", !.outcome = Some(result'.out)]

\* Lines 435-442: the alert check, or the 400 for an exception so far.
SurveyResponseAlerts ==
    /\ handler.pc = "returned"
    /\ LET body == handler.body[1]
           checked == IF handler.outcome[1].kind = "error" THEN handler.outcome[1]
                      ELSE check_alert_conditions(HandlerResponse(body))
       IN  IF checked.kind = "error"
           THEN /\ result' = HttpResult(body, 400, [error |-> checked.value])
                /\ handler' = [handler EXCEPT !.pc = "idle"]
           ELSE /\ result' = [op |-> "step", args |-> <<>>, out |-> Ok(None)]
                /\ handler' = [handler EXCEPT !.pc = "dispatch", !.alerts = checked.value]
    /\ UNCHANGED <<now, ledger, responses, instances, worker, recorded, ledger0, sampled>>

\* Variant: a failed dispatch takes the ledger rows of the caller back.
SurveyResponseSend_RollingBack(delivered) ==
    /\ handler.pc = "dispatch"
    /\ Len(handler.sent) < Len(handler.alerts)
    /\ IF delivered
       THEN /\ result' = [op |-> "step", args |-> <<>>, out |-> Ok(None)]
            /\ handler' = [handler EXCEPT !.sent = Append(@, handler.alerts[Len(@) + 1])]
            /\ UNCHANGED ledger
       ELSE /\ result' = HttpResult(handler.body[1], 400, [error |-> "OSError"])
            /\ handler' = [handler EXCEPT !.pc = "idle"]
            /\ ledger' = SelectSeq(ledger,
                             LAMBDA r : r.caller_id # handler.body[1].caller_id)
    /\ UNCHANGED <<now, responses, instances, worker, recorded, ledger0, sampled>>

\* Lines 444-446: send_alert prints one alert; the print either succeeds or
\* raises (the log stream is closed), which ends the request with 400.
SurveyResponseSend(delivered) ==
    /\ handler.pc = "dispatch"
    /\ Len(handler.sent) < Len(handler.alerts)
    /\ IF delivered
       THEN /\ result' = [op |-> "step", args |-> <<>>, out |-> Ok(None)]
            /\ handler' = [handler EXCEPT !.sent = Append(@, handler.alerts[Len(@) + 1])]
       ELSE /\ result' = HttpResult(handler.body[1], 400, [error |-> "OSError"])
            /\ handler' = [handler EXCEPT !.pc = "idle"]
    /\ UNCHANGED <<now, ledger, responses, instances, worker, recorded, ledger0, sampled>>

\* Line 448: every alert is sent; the handler answers 200.
SurveyResponseDone ==
    /\ handler.pc = "dispatch"
    /\ Len(handler.sent) = Len(handler.alerts)
    /\ result' = HttpResult(handler.body[1], 200,
                            [response_id |-> handler.outcome[1].value,
                             alerts |-> Len(handler.alerts)])
    /\ handler' = [handler EXCEPT !.pc = "idle"]
    /\ UNCHANGED <<now, ledger, responses, instances, worker, recorded, ledger0, sampled>>

-----------------------------------------------------------------------------

\* Rows that an administrator may have put into caller_eligibility before the
\* service started (init_database keeps the tables it finds).
PreRow(last_surveyed, survey_count, is_blacklisted, blacklist_reason) ==
    [caller_id |-> Some("1001"), tenant_uuid |-> Some("t1"),
     last_surveyed |-> last_surveyed, survey_count |-> survey_count,
     is_blacklisted |-> is_blacklisted, blacklist_reason |-> blacklist_reason,
     updated_at |-> 0 - 30]

PreRows ==
    { PreRow(Some(0 - 23), 9, FALSE, None),
      PreRow(Some(0 - 30), 10, FALSE, None),
      PreRow(None, 0, FALSE, None),
      PreRow(Some(0 - 23), 10, TRUE, Some("abuse")) }

Init ==
    /\ now = 0
    /\ ledger \in {<<>>} \cup {<<r>> : r \in PreRows}
    /\ ledger0 = ledger
    /\ responses = <<>>
    /\ instances = <<>>
    /\ worker = [w \in Workers |-> Idle]
    /\ result = [op |-> "init", args |-> <<>>, out |-> Ok(None)]
    /\ recorded = {}
    /\ sampled = None
    /\ handler = HandlerIdle

\* The operations of the plugin with one process_survey_response in flight at
\* a time; the other operations fall between its database calls.
Next ==
    \/ Tick
    \/ \E c \in SeqCallerInputs, t \in TenantInputs, i \in InstanceInputs :
           IsCallerEligible(c, t, i)
    \/ \E c \in SeqCallerInputs, t \in TenantInputs, i \in InstanceInputs :
           CheckCallerEligibility(c, t, i)
    \/ \E data \in InstanceData : CreateSurveyInstance(data)
    \/ \E data \in ResponseData : ProcessCreate("w1", data)
    \/ ProcessRead("w1")
    \/ ProcessWrite("w1")

Spec == Init /\ [][Next]_vars

\* The request threads of the server running process_survey_response side by
\* side, with eligibility checks between their database calls.
NextRace ==
    \/ Tick
    \/ \E c \in CallerInputs, t \in TenantInputs :
           IsCallerEligible(c, t, None)
    \/ \E w \in Workers, data \in RaceData : ProcessCreate(w, data)
    \/ \E w \in Workers : ProcessRead(w)
    \/ \E w \in Workers : ProcessWrite(w)

SpecRace == Init /\ [][NextRace]_vars

\* The decision operations, between the database calls of one
\* process_survey_response.
DecideData ==
    [instance_id : {Some(Some(1))}, caller_id : {Some("1001")},
     tenant_uuid : TenantInputs, language : {Absent}, status : {Absent}]

NextDecide ==
    \/ Tick
    \/ \E t \in TenantInputs : IsCallerEligible(Some("1001"), t, None)
    \/ \E x \in SampleInputs : ShouldSampleCaller(x[1], x[2], FALSE)
    \/ \E response \in AlertResponses : CheckAlertConditions(response)
    \/ \E payload \in Payloads, secret \in Secrets : SignWebhookPayload(payload, secret)
    \/ \E payload \in VerifyPayloads, signature \in Signatures :
           VerifyWebhookSignature(payload, signature, "k1")
    \/ \E data \in DecideData : ProcessCreate("w1", data)
    \/ ProcessRead("w1")
    \/ ProcessWrite("w1")

SpecDecide == Init /\ [][NextDecide]_vars

\* The sampling decisions, between the database calls of one
\* process_survey_response; the history remembers some earlier decision.
NextSample ==
    \/ Tick
    \/ \E x \in SampleInputs, keep \in BOOLEAN : ShouldSampleCaller(x[1], x[2], keep)
    \/ \E data \in SampleBodies : CheckSamplingEligibility(data)
    \/ \E data \in DecideData : ProcessCreate("w1", data)
    \/ ProcessRead("w1")
    \/ ProcessWrite("w1")

\* The service on a new database file.
InitSample == Init /\ ledger = <<>>

SpecSample == InitSample /\ [][NextSample]_vars

-----------------------------------------------------------------------------
(* database.py: SurveyDatabase.update_survey_response, one transaction.  The *)
(* updates are the columns to set: a column that is not named is Absent.     *)

\* UPDATE survey_responses SET ... WHERE response_id = ?
update_survey_response(table, response_id, updates) ==
    [n \in 1..Len(table) |->
        IF table[n].response_id # response_id THEN table[n]
        ELSE [table[n] EXCEPT
                 !.status = Get(updates.status, @),
                 !.completed_at = Get(updates.completed_at, @)]]

\* The updates a caller hands over: a status alone, a completion time alone,
\* both together, a completion time taken away, nothing.
Updates ==
    {[status |-> Some("completed"), completed_at |-> Absent],
     [status |-> Some("abandoned"), completed_at |-> Absent],
     [status |-> Some("pending"), completed_at |-> Some(None)],
     [status |-> Absent, completed_at |-> Absent]}
    \cup {[status |-> Some("completed"), completed_at |-> Some(Some(at))] :
              at \in 0..MaxClock}

UpdateSurveyResponse(response_id, updates) ==
    /\ responses' = IF updates.status = Absent /\ updates.completed_at = Absent
                    THEN responses
                    ELSE update_survey_response(responses, response_id, updates)
    /\ result' = [op |-> "update_survey_response", args |-> <<response_id, updates>>,
                  out |-> IF updates.status = Absent /\ updates.completed_at = Absent
                          THEN Ok(FALSE)
                          ELSE Ok(\E n \in 1..Len(responses) :
                                     responses[n].response_id = response_id)]
    /\ UNCHANGED <<now, ledger, instances, worker, recorded, ledger0, sampled, handler>>

\* The bodies of the responses that are updated later: a completed one and a
\* pending one.
UpdateData ==
    [instance_id : {Some(Some(1))}, caller_id : {Some("1001")},
     tenant_uuid : {Some("t1")}, language : {Absent},
     status : {Absent, Some("pending")}]

\* Responses are submitted and then updated, on a new database file.
NextUpdate ==
    \/ Tick
    \/ \E data \in UpdateData : ProcessCreate("w1", data)
    \/ ProcessRead("w1")
    \/ ProcessWrite("w1")
    \/ \E response_id \in 1..2, updates \in Updates :
           UpdateSurveyResponse(response_id, updates)

SpecUpdate == InitSample /\ [][NextUpdate]_vars

\* Signing and verifying webhook payloads, at any hour.
NextWebhook ==
    \/ Tick
    \/ \E payload \in Payloads, secret \in Secrets : SignWebhookPayload(payload, secret)
    \/ \E payload \in WebhookTexts, signature \in WebhookSignatures, secret \in Secrets :
           VerifyWebhookSignature(payload, signature, secret)

SpecWebhook == Init /\ [][NextWebhook]_vars

\* Submissions through POST /survey/response, one at a time, on a new
\* database file.
NextHandler ==
    \/ Tick
    \/ \E body \in HandlerBodies : SurveyResponseCall(body)
    \/ ProcessRead("w1")
    \/ SurveyResponseReturn
    \/ SurveyResponseAlerts
    \/ \E delivered \in BOOLEAN : SurveyResponseSend(delivered)
    \/ SurveyResponseDone

SpecHandler == InitSample /\ [][NextHandler]_vars

\* The alert rules alone, at any hour.
NextAlert ==
    \/ Tick
    \/ \E response \in AlertCases : CheckAlertConditions(response)

SpecAlert == Init /\ [][NextAlert]_vars

\* The request threads alone, completing surveys of two callers side by side.
NextFrame ==
    \/ Tick
    \/ \E w \in Workers, data \in RaceData : ProcessCreate(w, data)
    \/ \E w \in Workers : ProcessRead(w)
    \/ \E w \in Workers : ProcessWrite(w)

SpecFrame == Init /\ [][NextFrame]_vars

-----------------------------------------------------------------------------
(* services.py: SurveyService.get_survey_analytics, and the SELECT of        *)
(* database.py.  The table survey_analytics is created by init_database and  *)
(* no statement of the plugin inserts into it.                               *)

survey_analytics == <<>>

\* SELECT * FROM survey_analytics WHERE instance_id = ? AND period_start >= ?
\* AND period_end <= ?, fetchone().
get_survey_analytics(instance_id, period_start, period_end) ==
    LET hits == SelectSeq(survey_analytics, LAMBDA r :
                    /\ r.instance_id = instance_id
                    /\ r.period_start >= period_start
                    /\ r.period_end <= period_end)
    IN  IF hits = <<>> THEN None ELSE Some(hits[1])

\* The answer when the SELECT finds no row.
NoAnalytics ==
    [total_responses |-> 0, completion_rate |-> 0, average_score |-> 0,
     nps_score |-> 0, detractor_count |-> 0, promoter_count |-> 0,
     passive_count |-> 0]

\* The clock counts hours.
HoursPerDay == 24

GetSurveyAnalytics(instance_id, period_days) ==
    /\ result' = [op |-> "get_survey_analytics",
                  args |-> <<instance_id, period_days>>,
                  out |-> LET analytics == get_survey_analytics(instance_id,
                                               now - period_days * HoursPerDay, now)
                          IN  IF analytics = None THEN Ok(NoAnalytics)
                              ELSE Ok([k \in DOMAIN NoAnalytics |-> analytics[1][k]])]
    /\ UNCHANGED <<now, ledger, responses, instances, worker, recorded, ledger0, sampled, handler>>

\* Anonymous NPS submissions: a promoter, a passive and a detractor score,
\* completed or still pending.
AnalyticsData ==
    [instance_id : {Some(Some(1))}, caller_id : {None},
     tenant_uuid : {Some("t1")}, language : {Absent},
     status : {Absent, Some("pending")},
     score : {Some([type |-> "int", v |-> 9]), Some([type |-> "int", v |-> 7]),
              Some([type |-> "int", v |-> 6])}]

AnalyticsPeriods == {0, 30}

NextAnalytics ==
    \/ Tick
    \/ \E data \in AnalyticsData : ProcessCreate("w1", data)
    \/ \E i \in 1..MaxInstances, days \in AnalyticsPeriods : GetSurveyAnalytics(i, days)

SpecAnalytics == InitSample /\ [][NextAnalytics]_vars

\* One request thread whose database calls can fail: the tenant value cannot
\* be bound, the language is not one of the enumeration, or the database is
\* locked at the ledger lookup or at the ledger write.
FailData ==
    [instance_id : {Some(Some(1))}, caller_id : {Some("1001")},
     tenant_uuid : TenantInputs \cup {Some(Unbindable)},
     language : {Absent}, status : {Absent}]
    \cup
    [instance_id : {Some(Some(1))}, caller_id : {Some("1001")},
     tenant_uuid : {Some("t1")}, language : {Some("xx")}, status : {Absent}]

NextFail ==
    \/ Tick
    \/ \E data \in FailData : ProcessCreate("w1", data)
    \/ ProcessRead("w1")
    \/ ProcessWrite("w1")
    \/ ProcessFail("w1")

SpecFail == Init /\ [][NextFail]_vars

\* The cap of ten surveys over days: two request threads completing surveys
\* of one caller who has eight or ten surveys behind them, the eligibility
\* check, and the clock moving on by the length of the cooldown.
CapRows ==
    { PreRow(Some(0 - 30), 8, FALSE, None),
      PreRow(Some(0 - 30), 10, FALSE, None),
      PreRow(Some(0 - 30), 10, TRUE, Some("abuse")) }

CapData ==
    [instance_id : {Some(Some(1))}, caller_id : {Some("1001")},
     tenant_uuid : {Some("t1")}, language : {Absent}, status : {Absent}]

InitCap ==
    /\ now = 0
    /\ ledger \in {<<r>> : r \in CapRows}
    /\ ledger0 = ledger
    /\ responses = <<>>
    /\ instances = <<>>
    /\ worker = [w \in Workers |-> Idle]
    /\ result = [op |-> "init", args |-> <<>>, out |-> Ok(None)]
    /\ recorded = {}
    /\ sampled = None
    /\ handler = HandlerIdle

TickDay ==
    /\ now < DefaultCooldownHours
    /\ now' = now + DefaultCooldownHours
    /\ result' = [op |-> "tick", args |-> <<>>, out |-> Ok(None)]
    /\ UNCHANGED <<ledger, responses, instances, worker, recorded, ledger0, sampled, handler>>

NextCap ==
    \/ TickDay
    \/ IsCallerEligible(Some("1001"), Some("t1"), None)
    \/ \E w \in Workers, data \in CapData : ProcessCreate(w, data)
    \/ \E w \in Workers : ProcessRead(w)
    \/ \E w \in Workers : ProcessWrite(w)

SpecCap == InitCap /\ [][NextCap]_vars

-----------------------------------------------------------------------------
(* Properties. *)

\* The rows of a table under the identity (caller, tenant), None included.
RowsOf(table, caller_id, tenant_uuid) ==
    SelectSeq(table, LAMBDA r : r.caller_id = caller_id /\ r.tenant_uuid = tenant_uuid)

CountOf(table, caller_id, tenant_uuid) ==
    LET rows == RowsOf(table, caller_id, tenant_uuid)
    IN  IF rows = <<>> THEN 0 ELSE rows[1].survey_count

Completions(caller_id, tenant_uuid) ==
    Cardinality({r \in recorded : r.caller_id = caller_id /\ r.tenant_uuid = tenant_uuid})

AllReturned == \A w \in Workers : worker[w].pc = "idle"

IsEligibilityResult == result.op = "is_caller_eligible"

InCooldown(row, hours) ==
    row.last_surveyed # None /\ now - row.last_surveyed[1] < hours

\* C1: once every process_survey_response call has returned, the survey_count
\* of each (caller, tenant) is the count the service found plus the number of
\* calls recorded for it, however the calls interleaved.
C1_NoLostIncrement ==
    AllReturned =>
        \A c \in CallerIds, t \in TenantIds :
            CountOf(ledger, Some(c), Some(t))
                = CountOf(ledger0, Some(c), Some(t)) + Completions(Some(c), Some(t))

\* C2: is_caller_eligible on a blacklisted record answers ineligible with the
\* blacklist reason, whatever last_surveyed and survey_count are.
C2_BlacklistOverrides ==
    IsEligibilityResult =>
        LET rows == RowsOf(ledger, result.args[1], result.args[2])
        IN  \A n \in 1..Len(rows) :
                rows[n].is_blacklisted =>
                    /\ result.out.kind = "ok"
                    /\ result.out.value.eligible = FALSE
                    /\ result.out.value.reason[1] = "Blacklisted: "
                    /\ result.out.value.reason[2] = Str(rows[n].blacklist_reason)

C2_BlacklistedInCooldownAtCap ==
    /\ IsEligibilityResult
    /\ result.out.value.eligible = FALSE
    /\ LET rows == RowsOf(ledger, result.args[1], result.args[2])
       IN  /\ rows # <<>>
           /\ rows[1].is_blacklisted
           /\ InCooldown(rows[1], DefaultCooldownHours)
           /\ rows[1].survey_count >= MaxSurveys

\* C3: a caller without a ledger record is eligible and is sampled at 100
\* percent; once a completed response of the caller has been processed, a check
\* of the same (caller, tenant) within the hour answers ineligible, cooldown.
C3_CooldownAfterFirstCompletion ==
    /\ (IsEligibilityResult /\ result.args[1] # None
        /\ RowsOf(ledger, result.args[1], result.args[2]) = <<>>)
            => (result.out.kind = "ok" /\ result.out.value.eligible)
    /\ (result.op = "should_sample_caller" /\ Truthy(result.args[1])
        /\ result.args[2] = 100)
            => result.out = Ok(TRUE)
    /\ (IsEligibilityResult
        /\ RowsOf(ledger0, result.args[1], result.args[2]) = <<>>
        /\ \E r \in recorded : /\ r.caller_id = result.args[1]
                               /\ r.tenant_uuid = result.args[2]
                               /\ r.status = "completed"
                               /\ r.at = now)
            => /\ result.out.kind = "ok"
               /\ result.out.value.eligible = FALSE
               /\ result.out.value.reason = <<"Still in cooldown period">>

\* The cooldown_hours of the instance an eligibility check names, 24 when it
\* names none.
CooldownOf(instance_id) ==
    LET found == SelectSeq(instances, LAMBDA i : Some(i.instance_id) = instance_id)
    IN  IF found = <<>> THEN DefaultCooldownHours ELSE found[1].cooldown_hours

C5_RulePrecedence ==
    IsEligibilityResult =>
        LET rows == RowsOf(ledger, result.args[1], result.args[2])
            answer == result.out.value
        IN  /\ result.out.kind = "ok"
            /\ rows = <<>> => answer = [eligible |-> TRUE, reason |-> <<"New caller">>]
            /\ \A n \in 1..Len(rows) :
                 LET row == rows[n]
                 IN  /\ (~row.is_blacklisted /\ ~InCooldown(row, DefaultCooldownHours))
                            => /\ answer.eligible = (row.survey_count < 10)
                               /\ (row.survey_count >= 10) =>
                                      answer.reason = <<"Maximum survey count reached">>
                     /\ (~row.is_blacklisted /\ InCooldown(row, DefaultCooldownHours)
                         /\ row.survey_count >= 10)
                            => answer = [eligible |-> FALSE,
                                         reason |-> <<"Still in cooldown period">>]

C5_AtCapOutsideCooldown ==
    /\ IsEligibilityResult
    /\ result.out.value.reason = <<"Maximum survey count reached">>
    /\ LET rows == RowsOf(ledger, result.args[1], result.args[2])
       IN  /\ rows # <<>>
           /\ rows[1].survey_count = 10
           /\ rows[1].last_surveyed # None
           /\ ~InCooldown(rows[1], DefaultCooldownHours)

\* C6: an eligibility check without a tenant identifier or without a caller
\* identifier fails; it returns no (eligible, reason) decision.
C6_MissingIdentifierFails ==
    /\ (IsEligibilityResult /\ (result.args[1] = None \/ result.args[2] = None))
            => result.out.kind = "error"
    /\ (result.op = "check_caller_eligibility"
        /\ (result.args[1] = None \/ result.args[2] = None))
            => result.out.code = 400

DecisionOps ==
    {"is_caller_eligible", "should_sample_caller", "check_alert_conditions",
     "sign_webhook_payload", "verify_webhook_signature"}

\* C7: a step of is_caller_eligible, should_sample_caller,
\* check_alert_conditions, sign_webhook_payload or verify_webhook_signature
\* leaves the ledger, the response store and the instance store as they were.
C7_DecisionsLeaveStores ==
    [][result'.op \in DecisionOps => UNCHANGED stores]_vars

C7_DecisionBetweenDatabaseCalls ==
    /\ result.op = "check_alert_conditions"
    /\ result.out.value # <<>>
    /\ worker["w1"].pc = "write"
    /\ ledger # <<>>
    /\ responses # <<>>

IsSamplingResult == result.op = "should_sample_caller"

\* C8: for every caller identifier should_sample_caller answers false for a
\* percentage <= 0 and true for a percentage >= 100.
C8_SamplingExtremes ==
    (IsSamplingResult /\ result.args[1] # None) =>
        /\ result.args[2] <= 0 => result.out = Ok(FALSE)
        /\ result.args[2] >= 100 => result.out = Ok(TRUE)

C8_SampledAtHundred ==
    /\ IsSamplingResult
    /\ result.args[2] >= 100
    /\ result.out = Ok(TRUE)

\* int(md5(s), 16) % 100 of the caller identifiers of the model, as Python
\* computes it.
Bucket(s) == CASE s = "" -> 66 [] s = "1001" -> 6 [] s = "1002" -> 80

\* C9: the sampling decision is (hash(caller) mod 100) < percentage, and a
\* call with the inputs of an earlier call returns what the earlier call
\* returned, whatever happened to the ledger and the responses in between.
C9_SamplingDeterministic ==
    IsSamplingResult =>
        /\ result.args[1] # None =>
               result.out = Ok(Bucket(result.args[1][1]) < result.args[2])
        /\ (sampled # None /\ sampled[1].args = result.args) =>
               sampled[1].out = result.out

C9_SameDecisionAfterLedgerChange ==
    /\ IsSamplingResult
    /\ result.out = Ok(TRUE)
    /\ sampled # None
    /\ sampled[1].args = result.args
    /\ sampled[1].rows < Len(ledger)
    /\ responses # <<>>

\* C10: should_sample_caller with an empty or missing caller identifier fails;
\* it returns no sampling decision.
C10_EmptyCallerFails ==
    /\ (IsSamplingResult /\ ~Truthy(result.args[1])) => result.out.kind = "error"
    /\ (result.op = "check_sampling_eligibility" /\ ~Truthy(result.args[1].caller_id))
            => result.out.code = 400

IsAlertResult == result.op = "check_alert_conditions"

AlertsOfType(type) ==
    Len(SelectSeq(result.out.value, LAMBDA a : a.type = type))

\* int and float answers; a boolean or a text is not a number.
IsNumber(score) == score # Absent /\ score[1].type \in {"int", "float"}

\* C11: for a response whose score is a number s, check_alert_conditions
\* returns one nps_detractor alert when s <= 6 and none otherwise, one
\* csat_detractor alert when s <= 2 and none otherwise, each of priority high.
C11_DetractorThresholds ==
    (IsAlertResult /\ IsNumber(result.args[1].score)) =>
        LET s == result.args[1].score[1].v
            alerts == result.out.value
        IN  /\ AlertsOfType("nps_detractor") = (IF s <= 6 THEN 1 ELSE 0)
            /\ AlertsOfType("csat_detractor") = (IF s <= 2 THEN 1 ELSE 0)
            /\ \A n \in 1..Len(alerts) :
                   alerts[n].type \in {"nps_detractor", "csat_detractor"}
                       => alerts[n].priority = "high"

C11_OnlyNpsBetweenThresholds ==
    /\ IsAlertResult
    /\ IsNumber(result.args[1].score)
    /\ result.args[1].score[1].v = 6
    /\ AlertsOfType("nps_detractor") = 1
    /\ AlertsOfType("csat_detractor") = 0

\* C12: a response whose score is absent or is not a number (a text, a
\* boolean) gets no nps_detractor and no csat_detractor alert, and a response
\* whose comment is absent or empty gets no complaint_detected alert.
C12_NoAlertWithoutNumberOrComment ==
    IsAlertResult =>
        /\ ~IsNumber(result.args[1].score) =>
               /\ AlertsOfType("nps_detractor") = 0
               /\ AlertsOfType("csat_detractor") = 0
        /\ ~Truthy(result.args[1].text_comments) =>
               AlertsOfType("complaint_detected") = 0

\* Two characters that are the same letter in either case.
SameLetter(a, b) ==
    a = b \/ \E i \in 1..Len(Upper) : {a, b} = {Upper[i], Lower[i]}

\* The comment holds one of the seven keywords somewhere, whatever the case.
HasComplaintKeyword(text) ==
    \E k \in 1..Len(complaint_keywords) :
        \E i \in 0..(Len(text) - Len(complaint_keywords[k])) :
            \A j \in 1..Len(complaint_keywords[k]) :
                SameLetter(text[i + j], complaint_keywords[k][j])

\* C13: check_alert_conditions returns one complaint_detected alert, of
\* priority medium, when the comment holds a keyword in any case and none
\* otherwise, and no score alert comes after the complaint alert.
C13_ComplaintKeywords ==
    IsAlertResult =>
        LET comment == result.args[1].text_comments
            alerts == result.out.value
            expected == IF comment # None /\ HasComplaintKeyword(comment[1])
                        THEN 1 ELSE 0
        IN  /\ AlertsOfType("complaint_detected") = expected
            /\ \A n \in 1..Len(alerts) :
                   alerts[n].type = "complaint_detected" =>
                       /\ alerts[n].priority = "medium"
                       /\ n = Len(alerts)

C13_UpperCaseKeywordAfterScores ==
    /\ IsAlertResult
    /\ result.args[1].text_comments = Some(<<"I", " ", "H", "A", "T", "E", " ", "i", "t">>)
    /\ Len(result.out.value) = 3
    /\ result.out.value[3].type = "complaint_detected"

\* The step in which the process_survey_response call of worker w1 writes the
\* ledger and returns.
W1Writes == worker["w1"].pc = "write" /\ worker'["w1"].pc = "idle"

\* C14: when a completion is recorded for (caller, tenant) and the ledger has
\* no record of it, one record appears with survey_count 1 and last_surveyed
\* the time of the call; when it has a record, that record's survey_count goes
\* up by one, its last_surveyed and updated_at become the time of the call and
\* its blacklist flag and reason stay.
C14_RecordCompletion ==
    [][(W1Writes /\ Get(worker["w1"].data.status, "completed") = "completed") =>
        LET c == worker["w1"].data.caller_id
            t == worker["w1"].data.tenant_uuid
            before == RowsOf(ledger, c, t)
            after == RowsOf(ledger', c, t)
            submitted == responses[worker["w1"].response_id].created_at
            DuringCall(at) == submitted <= at /\ at <= now
        IN  IF before = <<>>
            THEN /\ Len(after) = 1
                 /\ after[1].survey_count = 1
                 /\ after[1].last_surveyed # None
                 /\ DuringCall(after[1].last_surveyed[1])
            ELSE /\ Len(after) = Len(before)
                 /\ after[1].survey_count = before[1].survey_count + 1
                 /\ after[1].last_surveyed # None
                 /\ DuringCall(after[1].last_surveyed[1])
                 /\ DuringCall(after[1].updated_at)
                 /\ after[1].is_blacklisted = before[1].is_blacklisted
                 /\ after[1].blacklist_reason = before[1].blacklist_reason]_vars

\* C15: in every step, whatever the interleaving, each ledger record is still
\* there afterwards with a survey_count that is not smaller, and still
\* blacklisted if it was.
C15_LedgerMonotonic ==
    [][\A n \in 1..Len(ledger) :
          \E m \in 1..Len(ledger') :
              /\ ledger'[m].caller_id = ledger[n].caller_id
              /\ ledger'[m].tenant_uuid = ledger[n].tenant_uuid
              /\ ledger'[m].survey_count >= ledger[n].survey_count
              /\ ledger[n].is_blacklisted => ledger'[m].is_blacklisted]_vars

\* C16: a process_survey_response call whose response is pending, abandoned
\* or failed leaves the records of its (caller, tenant) as they were; a call
\* whose response is completed and has a caller changes or adds exactly one.
C16_LedgerOnlyForCompleted ==
    [][W1Writes =>
        LET c == worker["w1"].data.caller_id
            t == worker["w1"].data.tenant_uuid
            before == RowsOf(ledger, c, t)
            after == RowsOf(ledger', c, t)
        IN  IF Get(worker["w1"].data.status, "completed") # "completed"
            THEN after = before
            ELSE Cardinality({m \in 1..Len(after) :
                                 m > Len(before) \/ after[m] # before[m]}) = 1]_vars

TerminalStatus == {"completed", "abandoned", "failed"}

\* C17: every stored response has completed_at set exactly when its status is
\* completed.
C17_CompletedAtIffCompleted ==
    \A n \in 1..Len(responses) :
        (responses[n].completed_at # None) <=> (responses[n].status = "completed")

\* C18: a stored response whose status is completed, abandoned or failed is
\* the same after every step; only a pending response is changed by
\* update_survey_response.
C18_TerminalResponsesImmutable ==
    [][\A n \in 1..Len(responses) :
          responses[n].status \in TerminalStatus => responses'[n] = responses[n]]_vars

\* Two payloads with the same keys and values, in whatever order.
SameEntries(p, q) == {p[n] : n \in DOMAIN p} = {q[n] : n \in DOMAIN q}

IsVerifyResult ==
    /\ result.op = "verify_webhook_signature"
    /\ result.args[1].type = "str"
    /\ result.args[1].parsed # None
    /\ result.args[2] # None

\* C19: verify_webhook_signature answers true for the text of a payload, the
\* signature sign_webhook_payload made for that payload (its keys inserted in
\* any order) and the same secret; two payloads with the same entries get the
\* same signature.
C19_SignVerifyRoundTrip ==
    /\ IsVerifyResult =>
          \A payload \in Payloads :
              (/\ SameEntries(payload, result.args[1].parsed[1])
               /\ result.args[2] = Some(sign_webhook_payload(payload, result.args[3]).value))
                  => result.out = Ok(TRUE)
    /\ result.op = "sign_webhook_payload" =>
          \A payload \in Payloads :
              SameEntries(payload, result.args[1])
                  => sign_webhook_payload(payload, result.args[2]) = result.out

C19_VerifiedInOtherKeyOrder ==
    /\ IsVerifyResult
    /\ result.args[1].parsed[1] = << <<"b", 2>>, <<"a", 1>> >>
    /\ result.args[2] = Some(sign_webhook_payload(<< <<"a", 1>>, <<"b", 2>> >>, "k2").value)
    /\ result.args[3] = "k2"
    /\ result.out = Ok(TRUE)

\* C20: verify_webhook_signature answers false for every signature string
\* that is not the one sign_webhook_payload makes for the payload and the
\* secret.
C20_OtherSignatureRejected ==
    (/\ IsVerifyResult
     /\ result.args[2] #
            Some(sign_webhook_payload(result.args[1].parsed[1], result.args[3]).value))
        => result.out = Ok(FALSE)

\* C21: verify_webhook_signature fails closed: for a payload text that does
\* not parse, or a signature that is not of the form the service produces, it
\* returns false and raises nothing.
C21_VerifyFailsClosed ==
    (/\ result.op = "verify_webhook_signature"
     /\ result.args[1].type = "str"
     /\ result.args[2] # None
     /\ \/ result.args[1].parsed = None
        \/ result.args[2][1][1] # "sha256=")
        => result.out = Ok(FALSE)

\* The submission the handler is working on, or worked on last, is stored and,
\* when it names a caller, its ledger update is in the ledger.
SubmissionCommitted ==
    LET body == handler.body[1]
        response_id == handler.outcome[1].value
    IN  /\ \E n \in 1..Len(responses) : responses[n].response_id = response_id
        /\ Truthy(body.caller_id) =>
              /\ \E r \in recorded : r.response_id = response_id
              /\ CountOf(ledger, body.caller_id, body.tenant_uuid)
                     = Completions(body.caller_id, body.tenant_uuid)

ProcessReturnedOk == handler.outcome # None /\ handler.outcome[1].kind = "ok"

C28_AlertBackReference ==
    (handler.pc = "dispatch" /\ ProcessReturnedOk) =>
        \A n \in 1..Len(handler.alerts) :
            handler.alerts[n].response_id = handler.outcome[1].value

\* A ledger row that carries a whole update made during the run: the count
\* one above the count before, and the time of the survey.
FullyUpdated(row, count_before) ==
    /\ row.survey_count = count_before + 1
    /\ row.last_surveyed # None
    /\ row.last_surveyed[1] \in 0..MaxClock
    /\ row.updated_at = row.last_surveyed[1]

\* C23: every step of process_survey_response, the failing ones included,
\* leaves the ledger record of a (caller, tenant) either exactly as it was or
\* as the one fully updated record: count raised by one and last_surveyed set
\* together, the blacklist fields kept.
C23_LedgerUpdateAllOrNothing ==
    [][\A c \in CallerIds, t \in TenantIds :
          LET before == RowsOf(ledger, Some(c), Some(t))
              after == RowsOf(ledger', Some(c), Some(t))
          IN  \/ after = before
              \/ /\ result'.out.kind = "ok"
                 /\ Len(after) = 1
                 /\ FullyUpdated(after[1], CountOf(ledger, Some(c), Some(t)))
                 /\ before # <<>> =>
                        /\ after[1].is_blacklisted = before[1].is_blacklisted
                        /\ after[1].blacklist_reason = before[1].blacklist_reason]_vars

C23_FailureAfterAnUpdate ==
    /\ result.op = "process_survey_response"
    /\ result.out = Raise("OperationalError")
    /\ ledger0 # <<>>
    /\ Completions(Some("1001"), Some("t1")) = 1
    /\ CountOf(ledger, Some("1001"), Some("t1"))
           = CountOf(ledger0, Some("1001"), Some("t1")) + 1

\* C29: a process_survey_response call that ends with an error has changed
\* neither the response store nor the ledger: the step that raises changes
\* neither, and no stored response carries the identifier of the failed call.
C29_FailedCallStoresNothing ==
    [][(result'.op = "process_survey_response" /\ result'.out.kind = "error") =>
          /\ ledger' = ledger
          /\ responses' = responses
          /\ worker["w1"].pc # "idle" =>
                 ~ \E n \in 1..Len(responses') :
                       responses'[n].response_id = worker["w1"].response_id]_vars

\* C24: the ledger write for (caller A, tenant T) changes the rows of no other
\* (caller, tenant): rows change only in the step in which a call for that
\* very pair writes; and with calls of different callers interleaved in any
\* order, the count of a pair that has completed once stands one above the
\* count it started with, whatever the other callers did meanwhile.
C24_OtherRecordsUnchanged ==
    [][/\ \A c \in CallerInputs, t \in TenantInputs :
              RowsOf(ledger', c, t) # RowsOf(ledger, c, t) =>
                  \E w \in Workers : /\ worker[w].pc = "write"
                                     /\ worker'[w].pc = "idle"
                                     /\ worker[w].data.caller_id = c
                                     /\ worker[w].data.tenant_uuid = t
       /\ (\A c \in CallerIds, t \in TenantIds :
              Completions(Some(c), Some(t)) <= 1 =>
                  CountOf(ledger, Some(c), Some(t))
                      = CountOf(ledger0, Some(c), Some(t))
                            + Completions(Some(c), Some(t)))']_vars

C24_OtherCallerFinishedMidCall ==
    /\ worker["w1"].pc = "write"
    /\ worker["w1"].data.caller_id = Some("1001")
    /\ worker["w1"].data.tenant_uuid = Some("t1")
    /\ ledger0 # <<>>
    /\ RowsOf(ledger, Some("1001"), Some("t1")) = RowsOf(ledger0, Some("1001"), Some("t1"))
    /\ CountOf(ledger, Some("1002"), Some("t1")) = 1
    /\ \E r \in recorded : /\ r.caller_id = Some("1002")
                           /\ r.response_id > worker["w1"].response_id

\* The stored responses that count for an instance and a period of days ending
\* now: completed, created in [now - days, now).
Contributing(instance_id, period_days) ==
    {n \in 1..Len(responses) :
        /\ responses[n].instance_id = Some(instance_id)
        /\ responses[n].status = "completed"
        /\ responses[n].created_at >= now - period_days * HoursPerDay
        /\ responses[n].created_at < now}

ScoredBetween(instance_id, period_days, low, high) ==
    {n \in Contributing(instance_id, period_days) :
        /\ responses[n].score # Absent
        /\ responses[n].score[1].v \in low..high}

\* C25: the analytics reported for an instance and a period are the counts of
\* the stored responses: total_responses is the number of completed responses
\* created in the period, promoter_count those scored 9-10, passive_count
\* those scored 7-8, detractor_count those scored 0-6.
C25_AnalyticsFromStoredResponses ==
    result.op = "get_survey_analytics" =>
        LET i == result.args[1]
            days == result.args[2]
        IN  /\ result.out.kind = "ok"
            /\ result.out.value.total_responses = Cardinality(Contributing(i, days))
            /\ result.out.value.promoter_count = Cardinality(ScoredBetween(i, days, 9, 10))
            /\ result.out.value.passive_count = Cardinality(ScoredBetween(i, days, 7, 8))
            /\ result.out.value.detractor_count = Cardinality(ScoredBetween(i, days, 0, 6))

\* C26: a process_survey_response call whose language or status is not a
\* value of the enumeration, and a create_survey_instance call whose trigger
\* mode is not one, ends with an error and leaves the response store, the
\* instance store and the ledger exactly as they were.
C26_InvalidEnumConstructsNothing ==
    [][/\ (/\ result'.op = "process_survey_response"
           /\ \/ Get(result'.args[1].language, "en") \notin Language
              \/ Get(result'.args[1].status, "completed") \notin ResponseStatus)
              => (result'.out.kind = "error" /\ stores' = stores)
       /\ (/\ result'.op = "create_survey_instance"
           /\ Get(result'.args[1].trigger_mode, "post_call_ivr") \notin TriggerMode)
              => (result'.out.kind = "error" /\ stores' = stores)]_vars

C26_InvalidLanguageOverFilledStores ==
    /\ result.op = "process_survey_response"
    /\ Get(result.args[1].language, "en") \notin Language
    /\ result.out = Raise("ValueError")
    /\ responses # <<>>
    /\ instances # <<>>
    /\ ledger # <<>>

\* C27: for every tenant value, the null tenant included, once a response of
\* caller c has been recorded under the tenant, the ledger holds exactly one
\* record of (c, tenant), is_caller_eligible for the pair no longer answers
\* "New caller", and after two completions of a pair that started without a
\* record, the record's survey_count is 2.
C27_OneRecordPerTenantValue ==
    \A c \in CallerIds, t \in TenantInputs :
        Completions(Some(c), t) >= 1 =>
            /\ Len(RowsOf(ledger, Some(c), t)) = 1
            /\ (IsEligibilityResult /\ result.args[1] = Some(c) /\ result.args[2] = t)
                   => result.out.value.reason # <<"New caller">>
            /\ (RowsOf(ledger0, Some(c), t) = <<>> /\ Completions(Some(c), t) = 2)
                   => CountOf(ledger, Some(c), t) = 2

\* The survey_count of (caller, tenant) has been at the cap or above: it
\* started there, or a call that returned wrote such a count.
HasBeenCapped(caller_id, tenant_uuid) ==
    \/ CountOf(ledger0, caller_id, tenant_uuid) >= MaxSurveys
    \/ \E r \in recorded : /\ r.caller_id = caller_id
                           /\ r.tenant_uuid = tenant_uuid
                           /\ r.survey_count >= MaxSurveys

\* C30: process_survey_response does not look at eligibility: the row it
\* builds for a caller carries the count of the ledger plus one also when the
\* caller is blacklisted, in cooldown or at the cap, so the count goes past 10;
\* and once the count of a caller has been 10 or more, is_caller_eligible
\* never again answers eligible for that caller.
C30_CapIsFinal ==
    [][/\ \A w \in Workers :
              (worker[w].pc = "read" /\ worker'[w].pc = "write") =>
                  worker'[w].eligibility.survey_count
                      = CountOf(ledger, worker[w].data.caller_id,
                                        worker[w].data.tenant_uuid) + 1
       /\ ((IsEligibilityResult /\ HasBeenCapped(result.args[1], result.args[2]))
              => ~ result.out.value.eligible)']_vars

====
